---- MODULE Spec2Model ----
(***************************************************************************)
(* Model of the roataway telegram bot (src/main.py): the route catalog     *)
(* loaded at start-up, the prediction store and the vehicle tracker fed by *)
(* MQTT messages, and the digest renderer behind the /prognosis command    *)
(* and the route buttons.                                                  *)
(*                                                                         *)
(* Python values are modelled as follows.  A dict is a function whose      *)
(* DOMAIN is the set of keys.  None is the empty tuple and a value v that  *)
(* may also be None is the 1-tuple <<v>>.  A list is a sequence.  An       *)
(* exception that leaves a handler is the string naming its type, held in  *)
(* the variable raised until the next handler runs.                        *)
(***************************************************************************)
EXTENDS Integers, Sequences, FiniteSets, TLC

VARIABLES
    pc,            \* position of Infobot.serve: what has been started so far
    routes,        \* Infobot.routes: route name -> Route
    all_stations,  \* Infobot.all_stations: station id -> station name
    predictions,   \* Infobot.predictions: route name -> (station id -> ETAs)
    transports,    \* Infobot.transports: board -> Transport
    last,          \* the input of the handler that ran last
    written,       \* (route, station id) -> the ETA values of the last message stored for it
    sent,          \* what the handler that ran last sent to the chat
    raised,        \* the exception the handler that ran last let escape
    threads,       \* the MQTT loop thread and a bot worker: the line each is at, its locals
    shown          \* route -> the digest sent for it in the run of digests sent last

vars == <<pc, routes, all_stations, predictions, transports, last, written, sent, raised,
          threads, shown>>

----------------------------------------------------------------------------
(* Bounds of the model. *)

MaxPairs == 3        \* longest (eta, board) list of a station message
MaxRows == 3         \* longest route file (rows after the header)
MaxLoadRows == 4     \* longest route file of SpecLoad

None == <<>>
Some(v) == <<v>>

Etas == {0, 1, 2}
StationIds == {1, 2, 3}
RouteNames == {"30", "31"}
Segments == {"A", "B"}
Boards == {"3913", "1273"}

Range(s) == {s[i] : i \in DOMAIN s}

\* f with key k bound to v, whether or not k was a key (d[k] = v)
SetItem(f, k, v) == [x \in DOMAIN f \cup {k} |-> IF x = k THEN v ELSE f[x]]

EmptyDict == [x \in {} |-> None]

\* Tuples over S of length at most n
SeqsUpTo(S, n) == UNION {[1..k -> S] : k \in 0..n}

----------------------------------------------------------------------------
(* structures.py *)

Route(name, segments, cutoff_station_id, station_sequence) ==
    [name |-> name, segments |-> segments,
     cutoff_station_id |-> cutoff_station_id,
     station_sequence |-> station_sequence]

\* Transport(): the dataclass defaults
Transport ==
    [latitude |-> None, longitude |-> None, direction |-> None,
     board_name |-> None, rtu_id |-> None, speed |-> Some(0),
     route |-> None, last_station_order |-> None]

----------------------------------------------------------------------------
(* Infobot.load_route: one pass over the rows of a route file. *)

StationName(id) == "st" \o ToString(id)

\* lines 106-107 setting the cutoff at the first change only
LoadRowFirstCutoff(acc, row) ==
    LET changed == acc.last_segment # "" /\ acc.last_segment # row.segment
    IN  [segments |->
            IF ~changed /\ row.segment \notin Range(acc.segments)
            THEN Append(acc.segments, row.segment) ELSE acc.segments,
         last_segment |-> row.segment,
         cutoff_station_id |->
            IF changed /\ acc.cutoff_station_id = None
            THEN Some(row.station_id) ELSE acc.cutoff_station_id,
         station_sequence |-> Append(acc.station_sequence, row.station_id),
         all_stations |-> SetItem(acc.all_stations, row.station_id, row.station_name)]

\* The loop body for one row.  acc holds the locals of load_route and
\* the global station table.
LoadRow(acc, row) ==
    LET changed == acc.last_segment # "" /\ acc.last_segment # row.segment
    IN  [segments |->
            IF ~changed /\ row.segment \notin Range(acc.segments)
            THEN Append(acc.segments, row.segment) ELSE acc.segments,
         last_segment |-> row.segment,
         cutoff_station_id |->
            IF changed THEN Some(row.station_id) ELSE acc.cutoff_station_id,
         station_sequence |-> Append(acc.station_sequence, row.station_id),
         all_stations |-> SetItem(acc.all_stations, row.station_id, row.station_name)]

RECURSIVE LoadRows(_, _)
LoadRows(acc, rows) ==
    IF rows = <<>> THEN acc
    ELSE LoadRows(LoadRow(acc, Head(rows)), Tail(rows))

\* load_route(path, route_name) with the file's rows and the station table
\* as it is when the call starts: the Route and the station table after it.
load_route(rows, route_name, stations) ==
    LET acc == LoadRows([segments |-> <<>>, last_segment |-> "",
                         cutoff_station_id |-> None, station_sequence |-> <<>>,
                         all_stations |-> stations], rows)
    IN  [route |-> Route(route_name, acc.segments, acc.cutoff_station_id,
                         acc.station_sequence),
         all_stations |-> acc.all_stations]

\* preload_structures: os.listdir gives the route files in some order, each
\* is loaded in turn.  files is a sequence of [name, rows]; a row that is
\* not well formed (fewer than four columns, a station id or order that is
\* not a numeral) makes load_route raise ValueError and ends the loading.
RECURSIVE preload(_, _)
preload(st, files) ==
    IF files = <<>> \/ st.raised # "none" THEN st
    ELSE LET f == Head(files)
             good == \A i \in DOMAIN f.rows : f.rows[i].wellformed
             bad == CHOOSE i \in DOMAIN f.rows :
                        /\ ~f.rows[i].wellformed
                        /\ \A j \in 1..(i - 1) : f.rows[j].wellformed
             r == load_route(IF good THEN f.rows ELSE SubSeq(f.rows, 1, bad - 1),
                             f.name, st.all_stations)
         IN  IF good
             THEN preload([routes |-> SetItem(st.routes, f.name, r.route),
                           predictions |-> SetItem(st.predictions, f.name, EmptyDict),
                           all_stations |-> r.all_stations,
                           raised |-> "none"], Tail(files))
             ELSE [st EXCEPT !.all_stations = r.all_stations,
                             !.raised = "ValueError"]

----------------------------------------------------------------------------
(* Infobot.form_digest_markdown(route): the digest is a sequence of lines. *)

Line(kind, text, etas) == [kind |-> kind, text |-> text, etas |-> etas]

HeaderLine(segment) == Line("header", segment, <<>>)
BlankLine == Line("blank", "", <<>>)
NoDataLine(name) == Line("nodata", name, <<>>)
StationLine(name, etas) == Line("station", name, etas)
BusStationLine(name, etas) == Line("bus_station", name, etas)
BusLine == Line("bus", "", <<>>)

\* line 192 without the test of the previous station: every 0 is marked
AtStationAlways(current_prognosis, last_prognosis) == current_prognosis = 0

\* line 192: the bus is at this station
AtStation(current_prognosis, last_prognosis) ==
    current_prognosis = 0 /\ last_prognosis # Some(0)

\* lines 203-205 with the comparison turned round
BetweenStationsRising(current_prognosis, last_prognosis) ==
    /\ last_prognosis # None
    /\ last_prognosis # Some(0)
    /\ current_prognosis > last_prognosis[1]

\* lines 203-205: the bus is between the previous station and this one
BetweenStations(current_prognosis, last_prognosis) ==
    /\ last_prognosis # None
    /\ last_prognosis # Some(0)
    /\ current_prognosis < last_prognosis[1]

\* lines 186-188 forgetting the previous ETA at a station without data
NoDataForget(acc, lines, station_name) ==
    [acc EXCEPT !.result = Append(lines, NoDataLine(station_name)),
                !.last_prognosis = None]

\* lines 186-188: no data, the loop continues with last_prognosis as it is
NoData(acc, lines, station_name) ==
    [acc EXCEPT !.result = Append(lines, NoDataLine(station_name))]

\* The body of the loop over station_sequence for one station: acc holds
\* result, last_prognosis and the exception that ended the walk, if any.
DigestStep(acc, route, station_id) ==
    IF acc.raised # "none" THEN acc
    ELSE IF Some(station_id) = routes[route].cutoff_station_id
            /\ Len(routes[route].segments) < 2
    THEN [acc EXCEPT !.raised = "IndexError"]
    ELSE IF station_id \notin DOMAIN all_stations \/ route \notin DOMAIN predictions
    THEN [acc EXCEPT !.raised = "KeyError"]
    ELSE
    LET lines == IF Some(station_id) = routes[route].cutoff_station_id
                 THEN acc.result \o <<BlankLine, HeaderLine(routes[route].segments[2])>>
                 ELSE acc.result
        station_name == all_stations[station_id]
        etas == IF station_id \in DOMAIN predictions[route]
                THEN predictions[route][station_id] ELSE <<>>
        current_prognosis == etas[1]
        last_prognosis == acc.last_prognosis
    IN  IF etas = <<>>
        THEN NoData(acc, lines, station_name)
        ELSE IF AtStation(current_prognosis, last_prognosis)
        THEN [acc EXCEPT !.result = Append(lines, BusStationLine(station_name, etas)),
                         !.last_prognosis = Some(current_prognosis)]
        ELSE IF BetweenStations(current_prognosis, last_prognosis)
        THEN [acc EXCEPT !.result = lines \o <<BusLine, StationLine(station_name, etas)>>,
                         !.last_prognosis = Some(current_prognosis)]
        ELSE [acc EXCEPT !.result = Append(lines, StationLine(station_name, etas)),
                         !.last_prognosis = Some(current_prognosis)]

RECURSIVE DigestWalk(_, _, _)
DigestWalk(acc, route, sequence) ==
    IF sequence = <<>> THEN acc
    ELSE DigestWalk(DigestStep(acc, route, Head(sequence)), route, Tail(sequence))

\* ", ".join of the numerals of a list
RECURSIVE JoinNumerals(_)
JoinNumerals(l) ==
    IF l = <<>> THEN ""
    ELSE IF Len(l) = 1 THEN ToString(l[1])
    ELSE ToString(l[1]) \o ", " \o JoinNumerals(Tail(l))

\* str(data) of a list of integers, as in "[0, 1]"
str(data) == "[" \o JoinNumerals(data) \o "]"

\* lines 169-171, form_digest_markdown(route, station_id) with a station:
\* [raised, result]
form_digest_station(route, station_id) ==
    IF route \notin DOMAIN predictions \/ station_id \notin DOMAIN predictions[route]
    THEN [raised |-> "KeyError", result |-> ""]
    ELSE [raised |-> "none", result |-> str(predictions[route][station_id])]

\* form_digest_markdown looking the route up with a default: an unknown
\* route gives an empty text
form_digest_lenient(route) ==
    IF route \notin DOMAIN routes \/ routes[route].segments = <<>>
    THEN [raised |-> "none", result |-> <<>>]
    ELSE LET acc == DigestWalk([result |-> <<HeaderLine(routes[route].segments[1])>>,
                                last_prognosis |-> None, raised |-> "none"],
                               route, routes[route].station_sequence)
         IN  [raised |-> acc.raised,
              result |-> IF acc.raised = "none" THEN acc.result ELSE <<>>]

\* line 177 missing, with last_prognosis an attribute that lives on from
\* the call before: the first ETA of the last station with data of the
\* digest sent last
KeptPrognosis ==
    IF sent = <<>> \/ sent[1].kind # "digest" THEN None
    ELSE LET text == sent[1].text
             data == {i \in DOMAIN text : text[i].etas # <<>>}
         IN  IF data = {} THEN None
             ELSE Some(text[CHOOSE i \in data : \A j \in data : j <= i].etas[1])

\* line 177: last_prognosis = None
InitialPrognosis == None

\* [raised, result]: the exception form_digest_markdown raises, or "none"
\* and the text it returns
form_digest_markdown(route) ==
    IF route \notin DOMAIN routes
    THEN [raised |-> "KeyError", result |-> <<>>]
    ELSE IF routes[route].segments = <<>>
    THEN [raised |-> "IndexError", result |-> <<>>]
    ELSE LET acc == DigestWalk([result |-> <<HeaderLine(routes[route].segments[1])>>,
                                last_prognosis |-> InitialPrognosis, raised |-> "none"],
                               route, routes[route].station_sequence)
         IN  [raised |-> acc.raised,
              result |-> IF acc.raised = "none" THEN acc.result ELSE <<>>]

----------------------------------------------------------------------------
(* Infobot.refresh_transport(data): data is the decoded JSON object. *)

Has(data, key) == key \in DOMAIN data

\* lines 75-76 with the coordinates crossed
CrossedAssignments ==
    << <<"lon", "latitude">>, <<"lat", "longitude">>, <<"speed", "speed">>,
       <<"dir", "direction">>, <<"route", "route">> >>

\* lines 75-78 without line 82: the route is not assigned
RouteLessAssignments ==
    << <<"lat", "latitude">>, <<"lon", "longitude">>, <<"speed", "speed">>,
       <<"dir", "direction">> >>

\* The assignments of lines 75-82, in order: <<key of data, field>>
Assignments ==
    << <<"lat", "latitude">>, <<"lon", "longitude">>, <<"speed", "speed">>,
       <<"dir", "direction">>, <<"route", "route">> >>

\* transport after the assignments k.. of Assignments, up to the first key
\* that data lacks (KeyError)
RECURSIVE Assign(_, _, _)
Assign(transport, data, k) ==
    IF k > Len(Assignments) THEN [transport |-> transport, raised |-> "none"]
    ELSE IF ~Has(data, Assignments[k][1])
    THEN [transport |-> transport, raised |-> "KeyError"]
    ELSE Assign([transport EXCEPT ![Assignments[k][2]] = Some(data[Assignments[k][1]])],
                data, k + 1)

\* lines 83-88 as data.get("last_station"): None when the key is missing
GetLastStation(transport, data) ==
    [transport EXCEPT !.last_station_order =
        IF Has(data, "last_station") THEN Some(data["last_station"]) ELSE None]

\* lines 83-88: the last station is taken when the key is there
AssignLastStation(transport, data) ==
    IF Has(data, "last_station")
    THEN [transport EXCEPT !.last_station_order = Some(data["last_station"])]
    ELSE transport

\* lines 66-73: the known Transport, or a new one with board_name and rtu_id
NewTransport(data) ==
    [Transport EXCEPT !.board_name = Some(data["board"]),
                      !.rtu_id = Some(data["rtu_id"])]

\* [transports, raised] after refresh_transport(data)
refresh_transport(trs, data) ==
    IF ~Has(data, "board") THEN [transports |-> trs, raised |-> "KeyError"]
    ELSE IF data["board"] \notin DOMAIN trs /\ ~Has(data, "rtu_id")
    THEN [transports |-> trs, raised |-> "KeyError"]
    ELSE LET transport == IF data["board"] \in DOMAIN trs
                          THEN trs[data["board"]] ELSE NewTransport(data)
             a == Assign(transport, data, 1)
         IN  [transports |->
                 SetItem(trs, data["board"],
                         IF a.raised = "none"
                         THEN AssignLastStation(a.transport, data)
                         ELSE a.transport),
              raised |-> a.raised]

----------------------------------------------------------------------------
(* Infobot.on_mqtt(client, userdata, msg) *)

\* "word" in msg.topic, the topic being the sequence of its levels
InTopic(word, topic) == \E i \in DOMAIN topic : topic[i] = word

Min(S) == CHOOSE x \in S : \A y \in S : x <= y

\* sorted(list(set(values)))
RECURSIVE SortedSet(_)
SortedSet(S) == IF S = {} THEN <<>> ELSE <<Min(S)>> \o SortedSet(S \ {Min(S)})

\* line 421 as sorted(predictions): the duplicates stay
RECURSIVE sorted_only(_)
sorted_only(values) ==
    IF values = <<>> THEN <<>>
    ELSE LET m == Min(Range(values))
             k == CHOOSE i \in DOMAIN values : values[i] = m
         IN  <<m>> \o sorted_only([i \in 1..(Len(values) - 1) |->
                                      IF i < k THEN values[i] ELSE values[i + 1]])

\* line 421 left out: the values as the message lists them
unsorted_list(values) == values

sorted_set(values) == SortedSet(Range(values))

\* line 418: [eta for eta, board in pairs]
EtasOf(pairs) == [i \in DOMAIN pairs |-> pairs[i][1]]

\* line 427 merging the new values into the stored ones
MergePrediction(bucket, station_id, values) ==
    SetItem(bucket, station_id,
            IF station_id \in DOMAIN bucket
            THEN SortedSet(Range(bucket[station_id]) \cup Range(values)) ELSE values)

\* line 427 as a write that stops after the first element of the list
StoreFirstOnly(bucket, station_id, values) ==
    SetItem(bucket, station_id, IF values = <<>> THEN <<>> ELSE <<values[1]>>)

\* line 427 as an extension of the stored list
AppendPrediction(bucket, station_id, values) ==
    SetItem(bucket, station_id,
            IF station_id \in DOMAIN bucket
            THEN bucket[station_id] \o values ELSE values)

\* line 427 with the entry deleted when the message lists no ETA
StoreOrForget(bucket, station_id, values) ==
    IF values = <<>>
    THEN [id \in DOMAIN bucket \ {station_id} |-> bucket[id]]
    ELSE SetItem(bucket, station_id, values)

\* line 427: self.predictions[route][station_id] = predictions
StorePrediction(bucket, station_id, values) == SetItem(bucket, station_id, values)

\* The list a store holds for a key: None for a key never stored
StoredIn(preds, route, station_id) ==
    IF route \in DOMAIN preds /\ station_id \in DOMAIN preds[route]
    THEN Some(preds[route][station_id]) ELSE None

\* lines 410-427 as a loop over every route of the eta mapping
on_station_every(preds, data) ==
    IF ~Has(data, "eta") THEN [predictions |-> preds, raised |-> "KeyError"]
    ELSE IF data["eta"] = <<>> THEN [predictions |-> preds, raised |-> "IndexError"]
    ELSE IF ~Has(data, "station_id") THEN [predictions |-> preds, raised |-> "KeyError"]
    ELSE
    LET eta == data["eta"]
        named == {eta[i].route : i \in DOMAIN eta}
        entry(r) == eta[CHOOSE i \in DOMAIN eta : eta[i].route = r]
        bucket(r) == IF r \in DOMAIN preds THEN preds[r] ELSE EmptyDict
    IN  IF \E i \in DOMAIN eta : \E j \in DOMAIN eta[i].pairs : Len(eta[i].pairs[j]) # 2
        THEN [predictions |-> preds, raised |-> "ValueError"]
        ELSE [predictions |->
                 [r \in DOMAIN preds \cup named |->
                     IF r \in named
                     THEN StorePrediction(bucket(r), data["station_id"],
                                          sorted_set(EtasOf(entry(r).pairs)))
                     ELSE preds[r]],
              raised |-> "none"]

\* lines 408-427 on the decoded data: [predictions, raised]
on_station(preds, data) ==
    IF ~Has(data, "eta") THEN [predictions |-> preds, raised |-> "KeyError"]
    ELSE IF data["eta"] = <<>> THEN [predictions |-> preds, raised |-> "IndexError"]
    ELSE IF ~Has(data, "station_id") THEN [predictions |-> preds, raised |-> "KeyError"]
    ELSE
    LET route == data["eta"][1].route
        station_id == data["station_id"]
        pairs == data["eta"][1].pairs
        withBucket == IF route \in DOMAIN preds THEN preds
                      ELSE SetItem(preds, route, EmptyDict)
    IN  IF \E i \in DOMAIN pairs : Len(pairs[i]) # 2
        THEN [predictions |-> withBucket, raised |-> "ValueError"]
        ELSE [predictions |->
                 [withBucket EXCEPT ![route] =
                     StorePrediction(withBucket[route], station_id,
                                     sorted_set(EtasOf(pairs)))],
              raised |-> "none"]

\* on_mqtt without the try of lines 402-406: the ValueError escapes
on_mqtt_uncaught(preds, trs, msg) ==
    IF ~msg.payload.json
    THEN [predictions |-> preds, transports |-> trs, raised |-> "ValueError"]
    ELSE IF InTopic("station", msg.topic)
    THEN LET r == on_station(preds, msg.payload.data)
         IN  [predictions |-> r.predictions, transports |-> trs, raised |-> r.raised]
    ELSE IF InTopic("transport", msg.topic)
    THEN LET r == refresh_transport(trs, msg.payload.data)
         IN  [predictions |-> preds, transports |-> r.transports, raised |-> r.raised]
    ELSE [predictions |-> preds, transports |-> trs, raised |-> "none"]

\* on_mqtt with the last elif of line 429 as an else
on_mqtt_else_transport(preds, trs, msg) ==
    IF ~msg.payload.json
    THEN [predictions |-> preds, transports |-> trs, raised |-> "none"]
    ELSE IF InTopic("station", msg.topic)
    THEN LET r == on_station(preds, msg.payload.data)
         IN  [predictions |-> r.predictions, transports |-> trs, raised |-> r.raised]
    ELSE LET r == refresh_transport(trs, msg.payload.data)
         IN  [predictions |-> preds, transports |-> r.transports, raised |-> r.raised]

\* [predictions, transports, raised] after on_mqtt(msg)
on_mqtt(preds, trs, msg) ==
    IF ~msg.payload.json
    THEN [predictions |-> preds, transports |-> trs, raised |-> "none"]
    ELSE IF InTopic("station", msg.topic)
    THEN LET r == on_station(preds, msg.payload.data)
         IN  [predictions |-> r.predictions, transports |-> trs, raised |-> r.raised]
    ELSE IF InTopic("transport", msg.topic)
    THEN LET r == refresh_transport(trs, msg.payload.data)
         IN  [predictions |-> preds, transports |-> r.transports, raised |-> r.raised]
    ELSE [predictions |-> preds, transports |-> trs, raised |-> "none"]

----------------------------------------------------------------------------
(* The Telegram handlers that render a digest. *)

\* get_params(raw): raw is the text split at its first blank
get_params(raw) == IF Len(raw) = 1 THEN None ELSE Some(raw[2])

\* A message sent to the chat
Message(kind, route, text, buttons) ==
    [kind |-> kind, route |-> route, text |-> text, buttons |-> buttons]

Nudges == Message("MSG_MAP_MSG_FEEDBACK_NUDGE", "", <<>>, {})

\* [sent, raised] after on_bot_prognosis with update.message.text = raw
on_bot_prognosis(raw) ==
    LET route == get_params(raw)
    IN  IF route = None
        THEN [sent |-> <<Message("MSG_CHOOSE_ROUTE", "", <<>>, DOMAIN routes)>>,
              raised |-> "none"]
        ELSE IF route[1] \notin DOMAIN routes
        THEN [sent |-> <<Message("MSG_UNSUPPORTED_ROUTE", "", <<>>, {})>>,
              raised |-> "none"]
        ELSE LET etas == form_digest_markdown(route[1])
             IN  IF etas.raised # "none"
                 THEN [sent |-> <<>>, raised |-> etas.raised]
                 ELSE [sent |-> <<Message("digest", route[1], etas.result, {}), Nudges>>,
                       raised |-> "none"]

\* [sent, raised] after on_bot_route_button with callback_query.data = route
on_bot_route_button(route) ==
    LET etas == form_digest_markdown(route)
    IN  IF etas.raised # "none"
        THEN [sent |-> <<>>, raised |-> etas.raised]
        ELSE [sent |-> <<Message("digest", route, etas.result, {}), Nudges>>,
              raised |-> "none"]

----------------------------------------------------------------------------
(* Inputs. *)

Row(station_id, segment) ==
    [station_id |-> station_id, station_order |-> 0,
     station_name |-> StationName(station_id), segment |-> segment,
     wellformed |-> TRUE]

BadRow == [Row(1, "A") EXCEPT !.wellformed = FALSE]

Rows == {Row(id, seg) : id \in StationIds, seg \in Segments}

File(name, rows) == [name |-> name, rows |-> rows]

Topic(kind) == <<"state", kind, "1">>

Payload(data) == [json |-> TRUE, data |-> data]

Garbage == [json |-> FALSE, data |-> EmptyDict]

Mqtt(kind, payload) == [topic |-> Topic(kind), payload |-> payload]

Entry(route, pairs) == [route |-> route, pairs |-> pairs]

Pairs == {<<eta, board>> : eta \in Etas, board \in Boards}

StationData(station_id, eta) == [station_id |-> station_id, eta |-> eta]

----------------------------------------------------------------------------
(* The state machine. *)

\* A thread that runs no handler
Idle == [at |-> "idle"]

Init ==
    /\ pc = "constructed"
    /\ routes = EmptyDict
    /\ all_stations = EmptyDict
    /\ predictions = EmptyDict
    /\ transports = EmptyDict
    /\ last = [op |-> "__init__"]
    /\ written = EmptyDict
    /\ sent = <<>>
    /\ raised = "none"
    /\ threads = [mqtt |-> Idle, bot |-> Idle]
    /\ shown = EmptyDict

\* serve, line 136: preload_structures; an exception ends the process
Preload(files) ==
    /\ pc = "constructed"
    /\ LET st == preload([routes |-> routes, predictions |-> predictions,
                          all_stations |-> all_stations, raised |-> "none"], files)
       IN  /\ routes' = st.routes
           /\ predictions' = st.predictions
           /\ all_stations' = st.all_stations
           /\ raised' = st.raised
           /\ pc' = IF st.raised = "none" THEN "loaded" ELSE "exited"
    /\ last' = [op |-> "preload_structures", files |-> files]
    /\ sent' = <<>>
    /\ UNCHANGED <<transports, written, threads, shown>>

\* serve with line 136 moved below line 146, or its exception swallowed:
\* the subscription is made whatever the state of the catalog
StartMqttUnloaded ==
    /\ pc \in {"constructed", "loaded", "exited"}
    /\ pc' = "subscribed"
    /\ last' = [op |-> "loop_start"]
    /\ sent' = <<>>
    /\ raised' = "none"
    /\ UNCHANGED <<routes, all_stations, predictions, transports, written, threads, shown>>

\* serve, lines 139-146: the handler is set, the topics are subscribed and
\* the MQTT loop is started
StartMqtt ==
    /\ pc = "loaded"
    /\ pc' = "subscribed"
    /\ last' = [op |-> "loop_start"]
    /\ sent' = <<>>
    /\ raised' = "none"
    /\ UNCHANGED <<routes, all_stations, predictions, transports, written, threads, shown>>

\* serve, lines 148-155: the REST API and the bot are started
StartBot ==
    /\ pc = "subscribed"
    /\ pc' = "polling"
    /\ last' = [op |-> "start_polling"]
    /\ sent' = <<>>
    /\ raised' = "none"
    /\ UNCHANGED <<routes, all_stations, predictions, transports, written, threads, shown>>

\* What the model remembers of a feed message: its kind, for a station
\* message that is stored the key it names, the ETAs it lists, in the
\* message's order, the routes it names after the first, and the values
\* the key held before that the message does not list, for another decoded
\* message its data and the route stored for its board; and the message
\* itself, with whether it is the message handled just before
Summary(msg) ==
    LET data == msg.payload.data
        station == /\ msg.payload.json
                   /\ InTopic("station", msg.topic)
        whole == /\ station
                 /\ Has(data, "eta") /\ data["eta"] # <<>> /\ Has(data, "station_id")
                 /\ \A i \in DOMAIN data["eta"][1].pairs : Len(data["eta"][1].pairs[i]) = 2
    IN  [op |-> "on_mqtt",
         kind |-> IF ~msg.payload.json THEN "garbage"
                  ELSE IF station THEN "station"
                  ELSE IF InTopic("transport", msg.topic) THEN "transport"
                  ELSE "other",
         route |-> IF whole THEN data["eta"][1].route ELSE "",
         station_id |-> IF whole THEN data["station_id"] ELSE 0,
         etas |-> IF whole
                  THEN [i \in DOMAIN data["eta"][1].pairs |-> data["eta"][1].pairs[i][1]]
                  ELSE <<>>,
         others |-> IF whole
                    THEN {data["eta"][i].route : i \in 2..Len(data["eta"])}
                    ELSE {},
         dropped |-> IF whole /\ data["eta"][1].route \in DOMAIN predictions
                        /\ data["station_id"] \in DOMAIN predictions[data["eta"][1].route]
                     THEN Range(predictions[data["eta"][1].route][data["station_id"]])
                          \ {data["eta"][1].pairs[i][1] : i \in DOMAIN data["eta"][1].pairs}
                     ELSE {},
         data |-> IF ~station /\ msg.payload.json THEN data ELSE EmptyDict,
         known |-> /\ ~station /\ msg.payload.json
                   /\ Has(data, "board") /\ data["board"] \in DOMAIN transports,
         route_was |-> IF ~station /\ msg.payload.json
                          /\ Has(data, "board") /\ data["board"] \in DOMAIN transports
                       THEN transports[data["board"]].route ELSE None,
         msg |-> msg,
         again |-> last.op = "on_mqtt" /\ last.msg = msg]

\* MqttClient.on_request -> Infobot.on_mqtt
OnMqtt(msg) ==
    /\ pc \in {"subscribed", "polling"}
    /\ LET r == on_mqtt(predictions, transports, msg)
       IN  /\ predictions' = r.predictions
           /\ transports' = r.transports
           /\ raised' = r.raised
    /\ last' = Summary(msg)
    /\ written' = IF last'.kind = "station" /\ raised' = "none"
                  THEN SetItem(written, <<last'.route, last'.station_id>>,
                               Range(last'.etas))
                  ELSE written
    /\ sent' = <<>>
    /\ shown' = EmptyDict
    /\ UNCHANGED <<pc, routes, all_stations, threads>>

\* The digests of the requests answered in a row with a digest, no other
\* handler and no write to the store between them, with the one in out;
\* last.again of a request: a digest of its route is among them
Shown(out) ==
    IF out # <<>> /\ out[1].kind = "digest"
    THEN SetItem(shown, out[1].route, out[1].text) ELSE EmptyDict

OnBotPrognosis(raw) ==
    /\ pc = "polling"
    /\ LET r == on_bot_prognosis(raw)
       IN  sent' = r.sent /\ raised' = r.raised
    /\ last' = [op |-> "on_bot_prognosis", route |-> get_params(raw),
                again |-> get_params(raw) # None /\ get_params(raw)[1] \in DOMAIN shown]
    /\ shown' = Shown(sent')
    /\ UNCHANGED <<pc, routes, all_stations, predictions, transports, written, threads>>

OnBotRouteButton(route) ==
    /\ pc = "polling"
    /\ LET r == on_bot_route_button(route)
       IN  sent' = r.sent /\ raised' = r.raised
    /\ last' = [op |-> "on_bot_route_button", route |-> Some(route),
                again |-> route \in DOMAIN shown]
    /\ shown' = Shown(sent')
    /\ UNCHANGED <<pc, routes, all_stations, predictions, transports, written, threads>>

\* form_digest_markdown(route, station_id) called for one station: the
\* text it returns is what the caller gets
FormDigestStation(route, station_id) ==
    /\ pc = "polling"
    /\ LET r == form_digest_station(route, station_id)
       IN  /\ sent' = IF r.raised = "none"
                      THEN <<Message("str", route, r.result, {})>> ELSE <<>>
           /\ raised' = r.raised
    /\ last' = [op |-> "form_digest_markdown", route |-> Some(route),
                station_id |-> station_id]
    /\ shown' = EmptyDict
    /\ UNCHANGED <<pc, routes, all_stations, predictions, transports, written, threads>>

----------------------------------------------------------------------------
(* The same handlers step by step, for the runs in which the MQTT loop     *)
(* thread (serve, line 138) and a bot worker interleave.  A step is the    *)
(* code between two accesses of the shared stores; the interpreter runs    *)
(* one thread at a time and switches between bytecodes, and a dict lookup  *)
(* or a dict assignment is one bytecode.  The steps of on_mqtt are those   *)
(* of a station message that carries eta, station_id and well-formed       *)
(* pairs; the steps of the render are those of a catalog route.            *)

\* on_mqtt, lines 398-411: the message is decoded, route and station_id are
\* taken from it
MqttReceive(msg) ==
    /\ pc \in {"subscribed", "polling"}
    /\ threads.mqtt = Idle
    /\ msg.payload.json /\ InTopic("station", msg.topic)
    /\ Has(msg.payload.data, "eta") /\ msg.payload.data["eta"] # <<>>
    /\ Has(msg.payload.data, "station_id")
    /\ \A i \in DOMAIN msg.payload.data["eta"][1].pairs :
          Len(msg.payload.data["eta"][1].pairs[i]) = 2
    /\ threads' = [threads EXCEPT !.mqtt =
                      [at |-> "412", route |-> msg.payload.data["eta"][1].route,
                       station_id |-> msg.payload.data["station_id"],
                       pairs |-> msg.payload.data["eta"][1].pairs,
                       predictions |-> <<>>]]
    /\ UNCHANGED <<pc, routes, all_stations, predictions, transports, last, written,
                   sent, raised, shown>>

\* lines 412-414: the bucket of the route is made when it is missing
MqttBucket ==
    /\ threads.mqtt.at = "412"
    /\ predictions' = IF threads.mqtt.route \in DOMAIN predictions THEN predictions
                      ELSE SetItem(predictions, threads.mqtt.route, EmptyDict)
    /\ threads' = [threads EXCEPT !.mqtt.at = "418"]
    /\ shown' = EmptyDict
    /\ UNCHANGED <<pc, routes, all_stations, transports, last, written, sent, raised>>

\* line 418: the local list predictions, as the message lists the ETAs
MqttExtract ==
    /\ threads.mqtt.at = "418"
    /\ threads' = [threads EXCEPT !.mqtt.at = "421",
                                  !.mqtt.predictions = EtasOf(threads.mqtt.pairs)]
    /\ UNCHANGED <<pc, routes, all_stations, predictions, transports, last, written,
                   sent, raised, shown>>

\* line 421: the local list is replaced by a new, sorted one
MqttSort ==
    /\ threads.mqtt.at = "421"
    /\ threads' = [threads EXCEPT !.mqtt.at = "427",
                                  !.mqtt.predictions = sorted_set(threads.mqtt.predictions)]
    /\ UNCHANGED <<pc, routes, all_stations, predictions, transports, last, written,
                   sent, raised, shown>>

\* line 427: the list is bound to the key, and on_mqtt returns
MqttStore ==
    /\ threads.mqtt.at = "427"
    /\ predictions' = [predictions EXCEPT ![threads.mqtt.route] =
                          StorePrediction(@, threads.mqtt.station_id,
                                          threads.mqtt.predictions)]
    /\ written' = SetItem(written, <<threads.mqtt.route, threads.mqtt.station_id>>,
                          Range(EtasOf(threads.mqtt.pairs)))
    /\ last' = [op |-> "on_mqtt"]
    /\ threads' = [threads EXCEPT !.mqtt = Idle]
    /\ shown' = EmptyDict
    /\ UNCHANGED <<pc, routes, all_stations, transports, sent, raised>>

\* on_bot_route_button, line 381, and form_digest_markdown, lines 175-177:
\* the header of the first segment; used is the list read for each station
RenderBegin(route) ==
    /\ pc = "polling"
    /\ threads.bot = Idle
    /\ route \in DOMAIN routes /\ routes[route].segments # <<>>
    /\ threads' = [threads EXCEPT !.bot =
                      [at |-> "178", route |-> route, k |-> 1,
                       acc |-> [result |-> <<HeaderLine(routes[route].segments[1])>>,
                                last_prognosis |-> InitialPrognosis, raised |-> "none"],
                       used |-> <<>>]]
    /\ sent' = <<>>
    /\ UNCHANGED <<pc, routes, all_stations, predictions, transports, last, written,
                   raised, shown>>

\* lines 178-211 for the next station: line 185 reads the store
RenderStation ==
    /\ threads.bot.at = "178"
    /\ threads.bot.k <= Len(routes[threads.bot.route].station_sequence)
    /\ LET route == threads.bot.route
           station_id == routes[route].station_sequence[threads.bot.k]
           etas == IF StoredIn(predictions, route, station_id) = None THEN <<>>
                   ELSE StoredIn(predictions, route, station_id)[1]
       IN  threads' = [threads EXCEPT
                          !.bot.acc = DigestStep(threads.bot.acc, route, station_id),
                          !.bot.used = Append(@, etas),
                          !.bot.k = @ + 1]
    /\ UNCHANGED <<pc, routes, all_stations, predictions, transports, last, written,
                   sent, raised, shown>>

\* line 213 and lines 382-396: the digest is returned and sent
RenderReturn ==
    /\ threads.bot.at = "178"
    /\ threads.bot.k > Len(routes[threads.bot.route].station_sequence)
    /\ sent' = IF threads.bot.acc.raised # "none" THEN <<>>
               ELSE <<Message("digest", threads.bot.route, threads.bot.acc.result, {}),
                      Nudges>>
    /\ raised' = threads.bot.acc.raised
    /\ last' = [op |-> "on_bot_route_button", route |-> Some(threads.bot.route),
                again |-> threads.bot.route \in DOMAIN shown]
    /\ threads' = [threads EXCEPT !.bot = Idle]
    /\ shown' = Shown(sent')
    /\ UNCHANGED <<pc, routes, all_stations, predictions, transports, written>>

----------------------------------------------------------------------------
(* Spec: start-up, then the feed with every station message of up to      *)
(* MaxPairs pairs for three keys, one vehicle, and requests for a digest.  *)

FeedKeys == {<<"30", 1>>, <<"30", 2>>, <<"31", 1>>}
FeedEtas == {0, 1}

\* The pairs of one message name different vehicles
BoardOf(i) == ToString(3912 + i)

PairLists(n) ==
    UNION {{[i \in 1..k |-> <<e[i], BoardOf(i)>>] : e \in [1..k -> FeedEtas]} : k \in 0..n}

WithoutKey(data, key) == [k \in DOMAIN data \ {key} |-> data[k]]

\* A position message: the coordinates, speed and heading of fix number n
Telemetry(board, rtu_id, route, n) ==
    [board |-> board, rtu_id |-> rtu_id, route |-> route,
     lat |-> 10 + n, lon |-> 20 + n, speed |-> 30 + n, dir |-> 40 + n]

WithLastStation(data, order) == data @@ ("last_station" :> order)

FeedListings ==
    { <<File("30", <<Row(1, "A"), Row(2, "B"), Row(3, "B")>>)>>,
      <<File("30", <<Row(1, "A"), BadRow>>)>>,
      <<File("30", <<Row(1, "A"), Row(2, "B"), Row(3, "B")>>),
        File("31", <<Row(1, "A"), BadRow>>)>> }

StationMsgs ==
    {Mqtt("station", Payload(StationData(k[2], <<Entry(k[1], l)>>))) :
        k \in FeedKeys, l \in PairLists(MaxPairs)}

TwoRouteMsgs ==
    {Mqtt("station", Payload(StationData(1, <<Entry(rr[1], l1), Entry(rr[2], l2)>>))) :
        rr \in {<<"30", "31">>, <<"31", "30">>},
        l1 \in PairLists(1), l2 \in PairLists(1)}

BrokenStationMsgs ==
    {Mqtt("station", Payload(d)) :
        d \in {StationData(1, <<>>),
               WithoutKey(StationData(1, <<>>), "eta"),
               WithoutKey(StationData(1, <<Entry("31", <<>>)>>), "station_id"),
               StationData(1, <<Entry("31", << <<0>> >>)>>)}}

OtherMsgs ==
    { Mqtt("station", Garbage), Mqtt("transport", Garbage),
      Mqtt("route", Payload(StationData(1, <<Entry("30", << <<0, "3913">> >>)>>))) }

FeedMsgs ==
    StationMsgs \cup TwoRouteMsgs \cup BrokenStationMsgs \cup OtherMsgs
    \cup {Mqtt("transport", Payload(Telemetry("3913", "rtu1", "30", 0)))}

Next ==
    \/ \E files \in FeedListings : Preload(files)
    \/ StartMqtt
    \/ StartBot
    \/ \E msg \in FeedMsgs : OnMqtt(msg)
    \/ \E raw \in {<<"/prognosis">>, <<"/prognosis", "30">>} : OnBotPrognosis(raw)
    \/ OnBotRouteButton("30")

Spec == Init /\ [][Next]_vars

----------------------------------------------------------------------------
(* The prediction store. *)

IsAscending(l) == \A i \in 1..(Len(l) - 1) : l[i] < l[i + 1]

\* get(route, station_id) of the prediction store: the stored list, None for
\* a key never stored
Stored(route, station_id) ==
    IF route \in DOMAIN predictions /\ station_id \in DOMAIN predictions[route]
    THEN Some(predictions[route][station_id]) ELSE None

StationStored == last.op = "on_mqtt" /\ last.kind = "station" /\ raised = "none"

\* C1: once a station message for (route, station) is ingested, the list
\* stored for that key is strictly ascending and holds exactly the ETA
\* values the message lists, each once and without the board labels.
C1_ReadBackSortedDistinct ==
    StationStored =>
        /\ Stored(last.route, last.station_id) # None
        /\ LET l == Stored(last.route, last.station_id)[1]
           IN  /\ IsAscending(l)
               /\ Range(l) = Range(last.etas)
               /\ \A i \in DOMAIN l : l[i] \in Int

\* a message listing 1, 1, 0 (as (5,A),(5,B),(3,C) does) reads back as 0, 1
C1_Witness ==
    /\ StationStored
    /\ last.etas = <<1, 1, 0>>
    /\ Stored(last.route, last.station_id) = Some(<<0, 1>>)

\* C2: whatever messages came before, the list stored for a key holds the
\* ETA values of the last message stored for that key and no other value
\* (last write wins, nothing of an earlier message is merged in).
C2_LastWriteWins ==
    \A k \in DOMAIN written :
        /\ Stored(k[1], k[2]) # None
        /\ IsAscending(Stored(k[1], k[2])[1])
        /\ Range(Stored(k[1], k[2])[1]) = written[k]
        /\ (StationStored /\ k = <<last.route, last.station_id>>) =>
               Range(Stored(k[1], k[2])[1]) \cap last.dropped = {}

\* the key held 1 and the message that listed only 0 replaced it
C2_Witness ==
    /\ StationStored
    /\ last.dropped = {1}
    /\ last.etas = <<0>>
    /\ Stored(last.route, last.station_id) = Some(<<0>>)

\* C10: a feed message whose payload does not decode changes neither store,
\* lets no exception escape and leaves the feed running.
C10_GarbageDropped ==
    [][(last'.op = "on_mqtt" /\ last'.kind = "garbage") =>
          /\ predictions' = predictions
          /\ transports' = transports
          /\ raised' = "none"
          /\ pc' = pc]_vars

\* a message that does not decode was handled with both stores holding data
C10_Witness ==
    /\ last.op = "on_mqtt" /\ last.kind = "garbage"
    /\ raised = "none"
    /\ Stored("30", 1) = Some(<<0, 1>>)
    /\ "3913" \in DOMAIN transports

\* The keys of the prediction store: (route, station id)
Keys(preds) == UNION {{<<r, id>> : id \in DOMAIN preds[r]} : r \in DOMAIN preds}

\* C11: a station message whose eta mapping names several routes writes the
\* entry of its first route for the station and nothing else: every other
\* entry of the store, those of the other routes it names included, is as
\* before, and no bucket is made for another route.
C11_OnlyFirstRouteWritten ==
    [][(StationStored' /\ last'.others # {}) =>
          /\ StoredIn(predictions', last'.route, last'.station_id) # None
          /\ Range(StoredIn(predictions', last'.route, last'.station_id)[1])
                = Range(last'.etas)
          /\ DOMAIN predictions' \ {last'.route} = DOMAIN predictions \ {last'.route}
          /\ \A k \in Keys(predictions) \cup Keys(predictions') :
                k # <<last'.route, last'.station_id>> =>
                   StoredIn(predictions', k[1], k[2]) = Stored(k[1], k[2])]_vars

\* a message for station 1 naming route 30 first and route 31 second wrote
\* 0 for route 30; route 31 holds 0, 1, which no such message carries
C11_Witness ==
    /\ StationStored
    /\ last.route = "30" /\ last.station_id = 1 /\ last.others = {"31"}
    /\ last.etas = <<0>>
    /\ Stored("30", 1) = Some(<<0>>)
    /\ Stored("31", 1) = Some(<<0, 1>>)

\* C14: a station message handled right after the identical message leaves
\* the prediction store and the vehicle tracker as the first handling left
\* them.
C14_ReingestIdempotent ==
    [][(last'.op = "on_mqtt" /\ last'.kind = "station" /\ last'.again) =>
          /\ predictions' = predictions
          /\ transports' = transports]_vars

\* the message listing 1, 1, 0 was handled twice in a row
C14_Witness ==
    /\ StationStored
    /\ last.again
    /\ last.etas = <<1, 1, 0>>
    /\ Stored(last.route, last.station_id) = Some(<<0, 1>>)

\* C16: every list the prediction store holds is strictly ascending, in
\* every state the feed can lead to.
C16_StoreAlwaysAscending ==
    \A k \in Keys(predictions) : IsAscending(predictions[k[1]][k[2]])

\* three keys hold a list and the message handled last was refused
C16_Witness ==
    /\ Stored("30", 1) = Some(<<0, 1>>)
    /\ Stored("30", 2) = Some(<<0, 1>>)
    /\ Stored("31", 1) = Some(<<1>>)
    /\ last.op = "on_mqtt" /\ last.kind = "station" /\ raised = "ValueError"

\* The route a station message names first, if it names one
FirstNamed(msg) ==
    IF Has(msg.payload.data, "eta") /\ msg.payload.data["eta"] # <<>>
    THEN {msg.payload.data["eta"][1].route} ELSE {}

\* C21: a station message changes at most the entry of its own (route,
\* station) key, after making an empty bucket for the route it names first
\* when the store has none; every other entry and the vehicle tracker are as
\* before. No feed message takes an entry or a bucket out of the store, and
\* an entry that no message writes keeps its list in every later state.
C21_StationWritesOwnKeyOnly ==
    [][/\ (last'.op = "on_mqtt" /\ last'.kind = "station") =>
             /\ transports' = transports
             /\ DOMAIN predictions' \ DOMAIN predictions \subseteq FirstNamed(last'.msg)
             /\ \A r \in DOMAIN predictions' \ DOMAIN predictions :
                   DOMAIN predictions'[r] \subseteq {last'.station_id}
             /\ \A k \in Keys(predictions') :
                   k # <<last'.route, last'.station_id>> =>
                      StoredIn(predictions', k[1], k[2]) = Stored(k[1], k[2])
       /\ DOMAIN predictions \subseteq DOMAIN predictions'
       /\ \A k \in Keys(predictions) :
             /\ StoredIn(predictions', k[1], k[2]) # None
             /\ ~(StationStored' /\ k = <<last'.route, last'.station_id>>) =>
                   StoredIn(predictions', k[1], k[2]) = Stored(k[1], k[2])]_vars

\* route 31, which no file lists, got its bucket from the feed; the message
\* handled last wrote station 2 of route 30, and the entries of the two
\* other keys and the vehicle record are those of earlier messages
C21_Witness ==
    /\ StationStored
    /\ last.route = "30" /\ last.station_id = 2 /\ last.etas = <<>>
    /\ Stored("30", 2) = Some(<<>>)
    /\ Stored("30", 1) = Some(<<0, 1>>)
    /\ Stored("31", 1) = Some(<<1>>)
    /\ "31" \notin DOMAIN routes
    /\ "3913" \in DOMAIN transports

\* A step of a handler of the feed or of a request for a digest
Handled ==
    last.op \in {"on_mqtt", "on_bot_prognosis", "on_bot_route_button"}

\* C23: the catalog a successful load leaves holds every file of the
\* listing with all its rows and is never changed afterwards; the feed is
\* subscribed only after such a load, feed messages are handled only once
\* subscribed and requests served only once the bot polls, which follows
\* the subscription; a load that fails ends the run: no subscription, no
\* message handled, no request served.
C23_CatalogBeforeServing ==
    [][/\ pc # "exited"
       /\ last'.op = "preload_structures" =>
             /\ pc = "constructed"
             /\ pc' = IF raised' = "none" THEN "loaded" ELSE "exited"
             /\ pc' = "loaded" =>
                   \A i \in DOMAIN last'.files :
                      /\ last'.files[i].name \in DOMAIN routes'
                      /\ Len(routes'[last'.files[i].name].station_sequence)
                            = Len(last'.files[i].rows)
       /\ last'.op # "preload_structures" =>
             /\ pc \in {"loaded", "subscribed", "polling"}
             /\ routes' = routes /\ all_stations' = all_stations
       /\ pc' = "subscribed" => pc \in {"loaded", "subscribed"}
       /\ pc' = "polling" => pc \in {"subscribed", "polling"}
       /\ (Handled' /\ last'.op = "on_mqtt") => pc \in {"subscribed", "polling"}
       /\ (Handled' /\ last'.op # "on_mqtt") => pc = "polling"]_vars

\* the second file of the listing has a malformed row: the run ended with
\* the route of the first file loaded, nothing subscribed and nothing served
C23_Witness ==
    /\ pc = "exited"
    /\ last.op = "preload_structures" /\ Len(last.files) = 2
    /\ raised = "ValueError"
    /\ DOMAIN routes = {"30"}
    /\ transports = EmptyDict /\ sent = <<>>

----------------------------------------------------------------------------
(* SpecVehicle: start-up, then the feed with every position message of one *)
(* board for two telemetry units, two routes and two fixes, with and       *)
(* without the last station, the messages that lack one key, and a second  *)
(* board.                                                                  *)

RtuIds == {"rtu1", "rtu2"}
Orders == {1, 2}

WholeTelemetry ==
    {Telemetry("3913", u, r, n) : u \in RtuIds, r \in RouteNames, n \in {0, 1}}
    \cup {Telemetry("1273", "rtu1", "30", 0)}

VehicleMsgs ==
    {Mqtt("transport", Payload(d)) : d \in WholeTelemetry}
    \cup {Mqtt("transport", Payload(WithLastStation(d, o))) : d \in WholeTelemetry, o \in Orders}
    \cup {Mqtt("transport", Payload(WithoutKey(Telemetry("3913", "rtu2", "31", 1), k))) :
            k \in DOMAIN Telemetry("3913", "rtu2", "31", 1)}
    \cup {Mqtt("transport", Garbage),
          Mqtt("route", Payload(Telemetry("3913", "rtu1", "30", 0))),
          Mqtt("station", Payload(StationData(1, <<Entry("30", << <<0, "3913">> >>)>>)))}

NextVehicle ==
    \/ \E files \in FeedListings : Preload(files)
    \/ StartMqtt
    \/ \E msg \in VehicleMsgs : OnMqtt(msg)

SpecVehicle == Init /\ [][NextVehicle]_vars

TransportHandled ==
    last.op = "on_mqtt" /\ last.kind = "transport" /\ Has(last.data, "board")

\* Every key of a position message but the optional one
RequiredKeys == {"board", "rtu_id", "route", "lat", "lon", "speed", "dir"}

\* C8: an update without the last-station field leaves the vehicle's last
\* station as it was, and a vehicle first seen without it has none (None,
\* not 0).
C8_LastStationKept ==
    [][(TransportHandled' /\ ~Has(last'.data, "last_station")) =>
          LET b == last'.data["board"]
          IN  b \in DOMAIN transports' =>
                 transports'[b].last_station_order =
                    IF b \in DOMAIN transports
                    THEN transports[b].last_station_order ELSE None]_vars

\* a vehicle that passed station 2 was updated without the field and keeps 2
C8_Witness ==
    /\ TransportHandled /\ raised = "none"
    /\ ~Has(last.data, "last_station")
    /\ last.known
    /\ transports[last.data["board"]].last_station_order = Some(2)

\* C9 as claimed: after an update for a known board every field of the
\* telemetry, the telemetry-unit id included, is stored with its value.
C9_EveryFieldStored ==
    (TransportHandled /\ last.known /\ RequiredKeys \subseteq DOMAIN last.data) =>
        LET t == transports[last.data["board"]]
            d == last.data
        IN  /\ t.rtu_id = Some(d["rtu_id"])
            /\ t.route = Some(d["route"])
            /\ t.latitude = Some(d["lat"]) /\ t.longitude = Some(d["lon"])
            /\ t.speed = Some(d["speed"]) /\ t.direction = Some(d["dir"])
            /\ Has(d, "last_station") => t.last_station_order = Some(d["last_station"])

\* C9 amended: after an update for a known board that carries route, lat,
\* lon, speed and dir, these (and the last station when present) are stored
\* with the telemetry's values, while the telemetry-unit id and the board
\* name stay as stored at the first sighting.
C9_FieldsStoredUnitKept ==
    [][(TransportHandled' /\ last'.data["board"] \in DOMAIN transports
        /\ RequiredKeys \ {"rtu_id"} \subseteq DOMAIN last'.data) =>
          LET b == last'.data["board"]
              t == transports'[b]
              d == last'.data
          IN  /\ raised' = "none"
              /\ t.rtu_id = transports[b].rtu_id
              /\ t.board_name = transports[b].board_name
              /\ t.route = Some(d["route"])
              /\ t.latitude = Some(d["lat"]) /\ t.longitude = Some(d["lon"])
              /\ t.speed = Some(d["speed"]) /\ t.direction = Some(d["dir"])
              /\ Has(d, "last_station") => t.last_station_order = Some(d["last_station"])]_vars

\* a known board reports another telemetry unit, route and fix: the route
\* and the fix are stored, the unit is still the first one
C9_Witness ==
    /\ TransportHandled /\ last.known /\ raised = "none"
    /\ RequiredKeys \subseteq DOMAIN last.data
    /\ last.data["rtu_id"] = "rtu2" /\ last.data["route"] = "31" /\ last.data["lat"] = 11
    /\ transports[last.data["board"]].rtu_id = Some("rtu1")
    /\ transports[last.data["board"]].route = Some("31")
    /\ transports[last.data["board"]].latitude = Some(11)

\* C15: a decoded message whose topic names neither the stations nor the
\* transports changes neither store and raises nothing.
C15_OtherTopicIgnored ==
    [][(last'.op = "on_mqtt" /\ last'.kind = "other") =>
          /\ predictions' = predictions
          /\ transports' = transports
          /\ raised' = "none"]_vars

\* a position of board 3913 on route 30 came under another topic while the
\* board is stored on route 31
C15_Witness ==
    /\ last.op = "on_mqtt" /\ last.kind = "other"
    /\ last.data["board"] = "3913" /\ last.data["route"] = "30"
    /\ "3913" \in DOMAIN transports
    /\ transports["3913"].route = Some("31")
    /\ raised = "none"

\* C20: after an update that carries the fields refresh_transport reads
\* (and the telemetry unit when the board is new) the stored route of the
\* board is the update's route, whatever it was before.
C20_RouteOverwritten ==
    (/\ TransportHandled
     /\ RequiredKeys \ {"rtu_id"} \subseteq DOMAIN last.data
     /\ last.known \/ Has(last.data, "rtu_id")) =>
        /\ raised = "none"
        /\ last.data["board"] \in DOMAIN transports
        /\ transports[last.data["board"]].route = Some(last.data["route"])

\* a board stored on route 30 reported route 31
C20_Witness ==
    /\ TransportHandled /\ last.known
    /\ RequiredKeys \subseteq DOMAIN last.data
    /\ last.route_was = Some("30")
    /\ last.data["route"] = "31"
    /\ transports[last.data["board"]].route = Some("31")

\* C25 as claimed: a feed message that is decoded and whose handling ends
\* with an exception leaves the prediction store and the vehicle tracker as
\* they were before it.
C25_FailedMessageChangesNothing ==
    [][(last'.op = "on_mqtt" /\ last'.kind # "garbage" /\ raised' # "none") =>
          /\ predictions' = predictions
          /\ transports' = transports]_vars

----------------------------------------------------------------------------
(* SpecRender: the digest of route 30 for every route file of up to        *)
(* MaxRows rows and every prediction store over its stations, asked for    *)
(* by command and by button, and the same requests for an unknown route.   *)

RenderListings == {<<File("30", rows)>> : rows \in SeqsUpTo(Rows, MaxRows)}

\* The lists the store may hold for a station of the route
RenderLists == {<<>>, <<0>>, <<1>>, <<2>>, <<1, 2>>}

RenderBuckets == UNION {[S -> RenderLists] : S \in SUBSET StationIds}

\* The bot is polling, the catalog is loaded from some listing and the feed
\* has stored some lists for route 30
InitRender ==
    /\ pc = "polling"
    /\ \E files \in RenderListings :
          LET st == preload([routes |-> EmptyDict, predictions |-> EmptyDict,
                             all_stations |-> EmptyDict, raised |-> "none"], files)
          IN  /\ routes = st.routes
              /\ all_stations = st.all_stations
    /\ \E bucket \in RenderBuckets :
          /\ predictions = [r \in {"30"} |-> bucket]
          /\ written = [k \in {<<"30", id>> : id \in DOMAIN bucket} |-> Range(bucket[k[2]])]
    /\ transports = EmptyDict
    /\ last = [op |-> "loop_start"]
    /\ sent = <<>>
    /\ raised = "none"
    /\ threads = [mqtt |-> Idle, bot |-> Idle]
    /\ shown = EmptyDict

Commands == {<<"/prognosis">>} \cup {<<"/prognosis", r>> : r \in RouteNames}

NextRender ==
    \/ \E raw \in Commands : OnBotPrognosis(raw)
    \/ \E route \in RouteNames : OnBotRouteButton(route)
    \/ \E id \in StationIds : FormDigestStation("30", id)

SpecRender == InitRender /\ [][NextRender]_vars

----------------------------------------------------------------------------
(* The digest a request was answered with, read against the catalog and    *)
(* the store.                                                              *)

DigestSent == sent # <<>> /\ sent[1].kind = "digest"

Digest == sent[1].text
Walk == routes[sent[1].route].station_sequence

IsStationLine(line) == line.kind \in {"nodata", "station", "bus_station"}

\* The line of the k-th station of the walk: the k-th station line
LineOf(k) ==
    CHOOSE i \in DOMAIN Digest :
        /\ IsStationLine(Digest[i])
        /\ Cardinality({j \in 1..i : IsStationLine(Digest[j])}) = k

\* Every station of the walk has its line, in the order of the walk
WalkRendered ==
    /\ Cardinality({i \in DOMAIN Digest : IsStationLine(Digest[i])}) = Len(Walk)
    /\ \A k \in DOMAIN Walk : Digest[LineOf(k)].text = all_stations[Walk[k]]

EtasAt(k) ==
    IF Stored(sent[1].route, Walk[k]) = None THEN <<>>
    ELSE Stored(sent[1].route, Walk[k])[1]

HasData(k) == EtasAt(k) # <<>>
Smallest(k) == Min(Range(EtasAt(k)))
Max(S) == CHOOSE x \in S : \A y \in S : y <= x

\* The data-bearing stations of the walk before the k-th
Before(k) == {j \in 1..(k - 1) : HasData(j)}

\* A bus line stands right before the line of the k-th station
BusBefore(k) == LineOf(k) > 1 /\ Digest[LineOf(k) - 1].kind = "bus"

\* The two markers of the k-th station as the claims state them, the
\* previous station being the last of P
MarkedAtStation(k, P) ==
    Smallest(k) = 0 /\ (P = {} \/ Smallest(Max(P)) # 0)

MarkedBetween(k, P) ==
    /\ P # {}
    /\ Smallest(Max(P)) # 0
    /\ Smallest(k) # 0
    /\ Smallest(k) < Smallest(Max(P))

\* C3: the line of a data-bearing station carries the bus-at-station marker
\* exactly when its smallest ETA is 0 and the nearest data-bearing station
\* before it has a smallest ETA other than 0 or does not exist.
C3_AtStationMarker ==
    DigestSent =>
        /\ WalkRendered
        /\ \A k \in DOMAIN Walk :
              HasData(k) =>
                 /\ Digest[LineOf(k)].kind \in {"station", "bus_station"}
                 /\ Digest[LineOf(k)].etas = EtasAt(k)
                 /\ Digest[LineOf(k)].kind = "bus_station" <=> MarkedAtStation(k, Before(k))

\* two stations in a row at 0 minutes: the first is marked, the second not
C3_Witness ==
    /\ DigestSent
    /\ \E k \in DOMAIN Walk :
          /\ k + 1 \in DOMAIN Walk /\ Walk[k] # Walk[k + 1]
          /\ EtasAt(k) = <<0>> /\ EtasAt(k + 1) = <<0>>
          /\ Digest[LineOf(k)].kind = "bus_station"
          /\ Digest[LineOf(k + 1)].kind = "station"

\* C4: a bus line stands right before the line of a data-bearing station
\* exactly when a data-bearing station precedes it whose smallest ETA is
\* not 0 and the station's own smallest ETA is not 0 and smaller; and a
\* bus line stands nowhere else.
C4_BetweenMarker ==
    DigestSent =>
        /\ WalkRendered
        /\ \A k \in DOMAIN Walk :
              HasData(k) => (BusBefore(k) <=> MarkedBetween(k, Before(k)))
        /\ \A i \in DOMAIN Digest :
              Digest[i].kind = "bus" =>
                 \E k \in DOMAIN Walk : HasData(k) /\ LineOf(k) = i + 1

\* 2 then 1 minutes at two stations in a row: a bus line between them
C4_Witness ==
    /\ DigestSent
    /\ \E k \in DOMAIN Walk :
          /\ k + 1 \in DOMAIN Walk
          /\ EtasAt(k) = <<2>> /\ EtasAt(k + 1) = <<1>>
          /\ BusBefore(k + 1)
          /\ Digest[LineOf(k + 1)].kind = "station"

\* C5: a station whose entry is absent or empty has the no-data line and
\* no bus marker, and the next data-bearing station is marked against the
\* last data-bearing station before the gap.
C5_NoDataSkipped ==
    DigestSent =>
        /\ WalkRendered
        /\ \A k \in DOMAIN Walk :
              ~HasData(k) =>
                 /\ Digest[LineOf(k)].kind = "nodata"
                 /\ ~BusBefore(k)
                 /\ \A m \in DOMAIN Walk :
                       (m > k /\ HasData(m) /\ \A j \in (k + 1)..(m - 1) : ~HasData(j)) =>
                          /\ Digest[LineOf(m)].kind = "bus_station"
                                <=> MarkedAtStation(m, Before(k))
                          /\ BusBefore(m) <=> MarkedBetween(m, Before(k))

\* 2 minutes, no data, 1 minute: the bus line stands before the third station
C5_Witness ==
    /\ DigestSent
    /\ Len(Walk) = 3
    /\ EtasAt(1) = <<2>> /\ ~HasData(2) /\ EtasAt(3) = <<1>>
    /\ Digest[LineOf(2)].kind = "nodata"
    /\ BusBefore(3)

\* C13 as claimed: reading the predictions of a catalog route for a station
\* of the route gives the stored list, or the empty one for a key never ingested, in
\* the walk of the whole route and in the single-station form alike, and
\* neither fails.
C13_ReadNeverFails ==
    /\ DigestSent =>
          /\ WalkRendered
          /\ \A k \in DOMAIN Walk : Digest[LineOf(k)].etas = EtasAt(k)
    /\ (/\ last.op = "form_digest_markdown"
        /\ last.route[1] \in DOMAIN routes
        /\ last.station_id \in Range(routes[last.route[1]].station_sequence)) =>
          /\ raised = "none"
          /\ sent = <<Message("str", last.route[1],
                              IF Stored(last.route[1], last.station_id) = None
                              THEN str(<<>>)
                              ELSE str(Stored(last.route[1], last.station_id)[1]), {})>>

RouteAsked ==
    /\ last.op \in {"on_bot_prognosis", "on_bot_route_button"}
    /\ last.route # None

\* The route has a station at least and visits no station twice
PlainRoute(route) ==
    /\ route.station_sequence # <<>>
    /\ \A i, j \in DOMAIN route.station_sequence :
          route.station_sequence[i] = route.station_sequence[j] => i = j

\* C6 as claimed: the digest of every catalog route (of distinct stations,
\* one at least) begins with the header of the first segment and, when the
\* route has a cutoff station, has the header of the second segment exactly
\* once, the line after it being the line of the cutoff station.
C6_SecondHeaderOnceAtCutoff ==
    (/\ RouteAsked /\ last.route[1] \in DOMAIN routes
     /\ PlainRoute(routes[last.route[1]])) =>
        LET route == routes[last.route[1]]
            headers == {i \in 2..Len(Digest) : Digest[i].kind = "header"}
        IN  /\ DigestSent
            /\ Len(route.segments) >= 1
            /\ Digest[1] = HeaderLine(route.segments[1])
            /\ route.cutoff_station_id # None =>
                  /\ Len(route.segments) >= 2
                  /\ Cardinality(headers) = 1
                  /\ \A i \in headers :
                        /\ Digest[i] = HeaderLine(route.segments[2])
                        /\ i < Len(Digest)
                        /\ IsStationLine(Digest[i + 1])
                        /\ Digest[i + 1].text = all_stations[route.cutoff_station_id[1]]

\* C7: a request for the digest of a route that is not in the catalog is
\* answered with no digest: the command replies that the route is not
\* supported, and the button's call of the renderer ends in the KeyError
\* of the catalog lookup.
C7_UnknownRouteNotFound ==
    (RouteAsked /\ last.route[1] \notin DOMAIN routes) =>
        /\ \A i \in DOMAIN sent : sent[i].kind # "digest"
        /\ last.op = "on_bot_prognosis" =>
              sent = <<Message("MSG_UNSUPPORTED_ROUTE", "", <<>>, {})>> /\ raised = "none"
        /\ last.op = "on_bot_route_button" => sent = <<>> /\ raised = "KeyError"

\* the button of a route that is not in the catalog was pressed
C7_Witness ==
    /\ last.op = "on_bot_route_button"
    /\ last.route = Some("31")
    /\ "31" \notin DOMAIN routes
    /\ "30" \in DOMAIN routes
    /\ raised = "KeyError"

\* C24 as claimed: once the catalog is loaded, every route of the catalog
\* has a bucket in the prediction store and every station of its sequence
\* has a name, and a request for the digest of a catalog route (of distinct
\* stations, one at least) is answered with a digest that has the line of
\* every station, each a no-data line while the bucket of the route is empty.
C24_CatalogRouteRenders ==
    pc \in {"loaded", "subscribed", "polling"} =>
       /\ \A r \in DOMAIN routes :
             /\ r \in DOMAIN predictions
             /\ Range(routes[r].station_sequence) \subseteq DOMAIN all_stations
       /\ (/\ RouteAsked
           /\ last.route[1] \in DOMAIN routes
           /\ PlainRoute(routes[last.route[1]])) =>
              /\ raised = "none"
              /\ DigestSent
              /\ WalkRendered
              /\ predictions[last.route[1]] = EmptyDict =>
                    \A i \in DOMAIN Digest :
                       IsStationLine(Digest[i]) => Digest[i].kind = "nodata"

----------------------------------------------------------------------------
(* SpecLoad: the catalog loaded from one route file, for every file of up  *)
(* to MaxLoadRows rows over two station ids and four segment labels, the   *)
(* empty label among them.                                                 *)

Labels == {"", "A", "B", "C"}

LoadIds == {1, 2}

LoadRowSet == {Row(id, seg) : id \in LoadIds, seg \in Labels}

LoadListings == {<<File("30", rows)>> : rows \in SeqsUpTo(LoadRowSet, MaxLoadRows)}

NextLoad == \E files \in LoadListings : Preload(files)

SpecLoad == Init /\ [][NextLoad]_vars

RouteLoaded == last.op = "preload_structures" /\ raised = "none"

\* The rows that were loaded and the Route made of them
LoadedRows == last.files[1].rows
Loaded == routes[last.files[1].name]

\* The rows whose label differs from the label of the row before
Changes(rows) == {i \in 2..Len(rows) : rows[i].segment # rows[i - 1].segment}

LabelsOf(rows) == [i \in DOMAIN rows |-> rows[i].segment]

\* Every row names its segment
Labelled(rows) == \A i \in DOMAIN rows : rows[i].segment # ""

\* C17 as claimed: the cutoff station id of a loaded route is absent or
\* equal to exactly one element of the station sequence, which is not the
\* first; and it is absent exactly when no row's label differs from the
\* label of the row before.
C17_CutoffOnceAfterFirst ==
    RouteLoaded =>
        LET cut == Loaded.cutoff_station_id
            seq == Loaded.station_sequence
        IN  /\ cut # None =>
                  /\ Cardinality({i \in DOMAIN seq : seq[i] = cut[1]}) = 1
                  /\ \A i \in DOMAIN seq : seq[i] = cut[1] => i > 1
            /\ cut = None <=> Changes(LoadedRows) = {}

\* C18 as claimed: rows whose label changes exactly once (each row naming
\* its segment and another station) load as a route of exactly two segment
\* labels, the first label and then the differing one, whatever the length
\* of either segment, so that a route with a cutoff has a second label.
C18_TwoSegmentsAfterOneChange ==
    (/\ RouteLoaded /\ Cardinality(Changes(LoadedRows)) = 1
     /\ Labelled(LoadedRows) /\ PlainRoute(Loaded)) =>
        /\ Loaded.segments =
              <<LoadedRows[1].segment,
                LoadedRows[CHOOSE i \in Changes(LoadedRows) : TRUE].segment>>
        /\ Loaded.cutoff_station_id # None => Len(Loaded.segments) >= 2

\* The labels of the first segment and of the segment the first change
\* begins
FirstTwoLabels(rows) == {rows[1].segment, rows[Min(Changes(rows))].segment}

SeenChanges(rows) ==
    {i \in 2..Len(rows) : rows[i - 1].segment # "" /\ rows[i].segment # rows[i - 1].segment}

\* The first row that carries the label and is not a change line 106 sees
FirstKept(rows, label) ==
    Min({i \in DOMAIN rows \ SeenChanges(rows) : rows[i].segment = label})

----------------------------------------------------------------------------
(* SpecThreads: start-up, then the MQTT loop thread ingesting station      *)
(* messages for two stations of route 30 while a bot worker renders the    *)
(* route, every step of the one interleaved with every step of the other.  *)

ThreadListings == { <<File("30", <<Row(1, "A"), Row(2, "A")>>)>> }

\* No ETA, two different ETAs out of order, the same ETA twice
ThreadEtas == {<<>>, <<1, 0>>, <<1, 1>>}

ThreadMsgs ==
    {Mqtt("station",
          Payload(StationData(id, <<Entry("30", [i \in DOMAIN e |-> <<e[i], BoardOf(i)>>])>>))) :
        id \in {1, 2}, e \in ThreadEtas}

NextThreads ==
    \/ \E files \in ThreadListings : Preload(files)
    \/ StartMqtt
    \/ StartBot
    \/ \E msg \in ThreadMsgs : MqttReceive(msg)
    \/ MqttBucket
    \/ MqttExtract
    \/ MqttSort
    \/ MqttStore
    \/ RenderBegin("30")
    \/ RenderStation
    \/ RenderReturn

SpecThreads == Init /\ [][NextThreads]_vars

\* The lines of the stations in a digest
StationLines(digest) == SelectSeq(digest, IsStationLine)

\* C12: whatever the interleaving, the list a render reads for a station is
\* empty when no update of the key has completed, and otherwise the whole
\* list of the last completed update of the key, its distinct ETAs in
\* ascending order; the digest sent shows the lists read; and in no state
\* does the store hold a list that is not ascending.
C12_RenderReadsWholeLists ==
    [][/\ (/\ threads.bot.at = "178" /\ threads'.bot.at = "178"
           /\ threads'.bot.k = threads.bot.k + 1) =>
             LET k == threads.bot.k
                 key == <<threads.bot.route,
                          routes[threads.bot.route].station_sequence[k]>>
                 read == threads'.bot.used[k]
             IN  /\ Len(threads'.bot.used) = k
                 /\ IsAscending(read)
                 /\ read = IF key \in DOMAIN written THEN SortedSet(written[key])
                           ELSE <<>>
       /\ (threads.bot.at = "178" /\ threads'.bot = Idle) =>
             /\ raised' = "none"
             /\ Len(StationLines(sent'[1].text)) = Len(threads.bot.used)
             /\ \A k \in DOMAIN threads.bot.used :
                   StationLines(sent'[1].text)[k].etas = threads.bot.used[k]
       /\ \A k \in Keys(predictions') : IsAscending(predictions'[k[1]][k[2]])]_vars

\* the render read 0, 1 for station 1 and has station 2 to read; station 1
\* has since been updated to 1, and the update of station 2 has its sorted
\* list ready and not yet stored
C12_Witness ==
    /\ threads.bot.at = "178" /\ threads.bot.k = 2
    /\ threads.bot.used = << <<0, 1>> >>
    /\ Stored("30", 1) = Some(<<1>>)
    /\ threads.mqtt.at = "427" /\ threads.mqtt.station_id = 2
    /\ threads.mqtt.pairs # <<>>
    /\ Stored("30", 2) = None

----------------------------------------------------------------------------
(* SpecRepeat: start-up with a catalog of two routes that share a station, *)
(* then station messages of at most one pair for three keys, and requests  *)
(* for the digest of either route and of a route the catalog lacks.        *)

RepeatListings ==
    { <<File("30", <<Row(1, "A"), Row(2, "A")>>),
        File("31", <<Row(1, "A"), Row(3, "B"), Row(2, "B")>>)>> }

RepeatMsgs ==
    {Mqtt("station", Payload(StationData(k[2], <<Entry(k[1], l)>>))) :
        k \in FeedKeys, l \in PairLists(1)}
    \cup {Mqtt("transport", Payload(Telemetry("3913", "rtu1", "30", 0)))}

NextRepeat ==
    \/ \E files \in RepeatListings : Preload(files)
    \/ StartMqtt
    \/ StartBot
    \/ \E msg \in RepeatMsgs : OnMqtt(msg)
    \/ \E raw \in Commands : OnBotPrognosis(raw)
    \/ \E route \in RouteNames \cup {"32"} : OnBotRouteButton(route)

SpecRepeat == Init /\ [][NextRepeat]_vars

\* The first station with data of the digest sent is rendered as after no
\* station: no bus line before it, and the bus on its line exactly when its
\* first ETA is 0
FirstFresh ==
    LET data == {k \in DOMAIN Walk : HasData(k)}
    IN  data # {} =>
           /\ ~BusBefore(Min(data))
           /\ Digest[LineOf(Min(data))].kind = "bus_station" <=> Smallest(Min(data)) = 0

\* C22: a request for a digest leaves the prediction store, the vehicle
\* tracker and the catalog as they are; the digest it sends renders its
\* first station with data as one that follows no station, and its text is
\* the text of the digest sent before for the same route and the same store
\* contents, whichever routes' digests were sent in between.
C22_RendersIndependent ==
    [][RouteAsked' =>
          /\ predictions' = predictions
          /\ transports' = transports
          /\ routes' = routes /\ all_stations' = all_stations
          /\ DigestSent' =>
                /\ FirstFresh'
                /\ sent'[1].route \in DOMAIN shown =>
                      sent'[1].text = shown[sent'[1].route]]_vars

\* the digests of both routes were sent for this store, the one of route 30
\* last and not for the first time; station 1 has 1 for route 30 and 0 for route 31, station 2 has 0
\* for route 30
C22_Witness ==
    /\ RouteAsked /\ DigestSent /\ last.again
    /\ sent[1].route = "30"
    /\ DOMAIN shown = {"30", "31"}
    /\ Stored("30", 1) = Some(<<1>>)
    /\ Stored("30", 2) = Some(<<0>>)
    /\ Stored("31", 1) = Some(<<0>>)
    /\ "3913" \in DOMAIN transports

====
